---- MODULE Spec2Model ----
(***************************************************************************)
(* train.py of intro-hyperparameter-tuning: a linear script that parses    *)
(* --tuner and --plot, loads Fashion-MNIST, reshapes, scales and one-hot   *)
(* encodes it, constructs one of three KerasTuner tuners, searches,        *)
(* retrains the best configuration, evaluates it and writes a plot.        *)
(*                                                                         *)
(* One behaviour of the model is a sequence of invocations of the script   *)
(* on one machine: the disk persists from one invocation to the next, all  *)
(* the rest of the state is per invocation.  Each external call either     *)
(* returns or raises; which call raises in an invocation (if any) is an    *)
(* input of that invocation, like its command line, the dataset the        *)
(* framework returns and the record the search converges to.               *)
(***************************************************************************)
EXTENDS Integers, Sequences, FiniteSets, TLC

VARIABLES
    run,            \* number of the current invocation of the script
    pc,             \* statement about to execute, or how the invocation ended
    args,           \* the command line: [tuner, plot], NoArg for an absent option
    fault,          \* the external call that raises in this invocation, or "none"
    oracle,         \* the hyperparameter record the search will rank first
    fashion_mnist,  \* the labels load_data() returns: [trainY, testY]
    trainX, testX,  \* image arrays: [shape, dtype, maxval]
    trainY, testY,  \* label arrays: class indices, one-hot rows once encoded
    built,          \* classes of the tuners constructed so far, in order
    tuner,          \* the tuner object, or None
    bestHP,         \* tuner.get_best_hyperparameters(num_trials=1)[0], or None
    reported,       \* the four values printed at lines 83-86, or None
    model,          \* tuner.hypermodel.build(bestHP), or None
    H,              \* the history model.fit returns, or None
    predictions,    \* model.predict(testX): [shape], or None
    yTrue,          \* testY.argmax(axis=1) at line 97
    writes,         \* files written by this invocation, in order: [by, path]
    disk,           \* paths that exist on disk (persists across invocations)
    used,           \* earlier invocations' tuner projects: [tuner, location]
    trace,          \* statements of this invocation that completed, in order
    exit            \* <<>> while running, <<status>> once the process ended

vars == <<run, pc, args, fault, oracle, fashion_mnist, trainX, testX, trainY,
          testY, built, tuner, bestHP, reported, model, H, predictions, yTrue,
          writes, disk, used, trace, exit>>

(***************************************************************************)
(* Bounds of the model.                                                    *)
(***************************************************************************)
MaxRuns == 2
MaxSamples == 2

(***************************************************************************)
(* Constants of the script.                                                *)
(***************************************************************************)
NumClasses == 10
ImgSide == 28
PixelMax == 255

None == [is |-> "None"]
NoArg == "<absent>"

\* choices that also let an unknown strategy name through
ChoicesWithGrid == {"hyperband", "random", "bayesian", "grid"}

\* choices=[...] of --tuner
Choices == {"hyperband", "random", "bayesian"}

\* required=True left off --plot
RequiredTunerOnly(opt) == opt = "tuner"

\* required=True of --tuner and of --plot
Required(opt) == opt \in {"tuner", "plot"}

labelNames == <<"top", "trouser", "pullover", "dress", "coat", "sandal",
                "shirt", "sneaker", "bag", "ankle boot">>

\* config.OUTPUT_PATH: pyimagesearch/config.py is not part of the sources; the
\* usage lines write their plots under "output"
OUTPUT_PATH == "output"

\* os.path.join(directory, project_name), where the tuner keeps its project
Join(dir, name) == dir \o "/" \o name

(***************************************************************************)
(* The statements of the module body, in program order.                    *)
(***************************************************************************)
StepOrder == <<"load", "reshape", "scale", "encode", "callback", "tuner",
               "search", "best", "build", "fit", "predict", "report", "plot">>

Steps == {StepOrder[i] : i \in 1..Len(StepOrder)}

IndexOf(s) == CHOOSE i \in 1..Len(StepOrder) : StepOrder[i] = s

\* the best record is fetched and the model evaluated without retraining it
AfterSkippingRetrain(s) ==
    IF s = "search" THEN "predict"
    ELSE IF IndexOf(s) = Len(StepOrder) THEN "done" ELSE StepOrder[IndexOf(s) + 1]

\* the statement that follows s; falling off the end of the file ends the run
After(s) == IF IndexOf(s) = Len(StepOrder) THEN "done" ELSE StepOrder[IndexOf(s) + 1]

\* every statement wrapped in try / except: pass
Swallow(s) == IF IndexOf(s) = Len(StepOrder) THEN "done" ELSE StepOrder[IndexOf(s) + 1]

\* an exception raised by statement s: the module body has no try/except, so
\* it reaches the interpreter, which ends the process
Propagate(s) == "failed"

Terminal == {"done", "failed", "usage_error"}

(***************************************************************************)
(* Array operations of the script.                                         *)
(***************************************************************************)
RECURSIVE Size(_)
\* number of elements of an array of the given shape
Size(shape) == IF shape = <<>> THEN 1 ELSE Head(shape) * Size(Tail(shape))

\* X.reshape((X.shape[0], 28, 28, 1)): the new shape of a channel-last array
ChannelShape(X) == <<X.shape[1], ImgSide, ImgSide, 1>>

\* numpy reshape keeps the data and changes the shape; the sizes must agree
CanReshape(X, shape) == Size(X.shape) = Size(shape)

Reshape(X, shape) == [X EXCEPT !.shape = shape]

\* X.astype("float32") / 255.0
Scale(X) == [X EXCEPT !.dtype = "float32", !.maxval = X.maxval \div PixelMax]

\* the label taken as a 1-based column
ToCategoricalOneBased(y, k) ==
    [i \in 1..Len(y) |-> [j \in 1..k |-> IF j = y[i] THEN 1 ELSE 0]]

\* to_categorical(y, k): one row per label, a 1 in the column of the label
\* (column j of the row is class j - 1) and 0 in the others
ToCategorical(y, k) ==
    [i \in 1..Len(y) |-> [j \in 1..k |-> IF j = y[i] + 1 THEN 1 ELSE 0]]

\* numpy argmax of one row: the 0-based index of the first largest entry
Argmax(row) ==
    LET best == CHOOSE i \in 1..Len(row) :
                    /\ \A j \in 1..Len(row) : row[j] <= row[i]
                    /\ \A j \in 1..(i - 1) : row[j] < row[i]
    IN  best - 1

\* Y.argmax(axis=1)
ArgmaxRows(Y) == [i \in 1..Len(Y) |-> Argmax(Y[i])]

(***************************************************************************)
(* Hyperparameters.                                                        *)
(***************************************************************************)
\* the search space build_model declares (pyimagesearch/model.py): two
\* filter counts, a unit count and a learning rate, the rate in units of 1e-5
HPSpace == [conv_1 : {32, 64}, conv_2 : {64, 128}, dense_units : {256},
            learning_rate : {12, 1000}]

\* "{:.4f}".format(rate): the rate rounded to four decimals, in units of 1e-4
Fmt4(rate) == (rate + 5) \div 10

\* the four values the script prints from a hyperparameter record
Report(hp) == [conv_1 |-> hp.conv_1, conv_2 |-> hp.conv_2,
               dense_units |-> hp.dense_units,
               learning_rate |-> Fmt4(hp.learning_rate)]

(***************************************************************************)
(* The tuner selected by --tuner.                                          *)
(***************************************************************************)
\* the chain written if / if / else: the else belongs to the second if alone
BranchesIfIf(t) == IF t = "hyperband" THEN <<"if", "else">>
                   ELSE IF t = "random" THEN <<"elif">>
                   ELSE <<"else">>

\* the branches of the if / elif / else whose bodies run for a --tuner
\* value, in order: the chain runs exactly one
Branches(t) == IF t = "hyperband" THEN <<"if">>
               ELSE IF t = "random" THEN <<"elif">>
               ELSE <<"else">>

\* the class each branch instantiates
TunerClass(branch) == IF branch = "if" THEN "Hyperband"
                      ELSE IF branch = "elif" THEN "RandomSearch"
                      ELSE "BayesianOptimization"

\* directory left at the tuner's default, the working directory
DirectoryDefault == "."

\* directory=config.OUTPUT_PATH
TunerDirectory == OUTPUT_PATH

\* project_name left at the tuner's default
ProjectNameDefault(a) == "untitled_project"

\* project_name=args["tuner"]
ProjectName(a) == a.tuner

\* where a tuner keeps its project
ProjectDir(t) == Join(t.directory, t.project_name)

\* the plot written to a fixed file name
PlotTargetFixed(a) == "plot.png"

\* the path utils.save_plot is given
PlotTarget(a) == a.plot

(***************************************************************************)
(* Inputs of an invocation.                                                *)
(***************************************************************************)
Labels == 0..(NumClasses - 1)

\* label arrays of 1..n samples
LabelSeqs(n) == UNION {[1..k -> Labels] : k \in 1..n}

OneSample == [trainY |-> <<0>>, testY |-> <<NumClasses - 1>>]

\* datasets with up to MaxSamples training samples or up to MaxSamples test
\* samples, of every class
RichDatasets ==
    {[OneSample EXCEPT !.trainY = y] : y \in LabelSeqs(MaxSamples)}
    \cup
    {[OneSample EXCEPT !.testY = y] : y \in LabelSeqs(MaxSamples)}

\* one-sample datasets holding the first and the last class
EdgeDatasets ==
    {[trainY |-> <<l>>, testY |-> <<NumClasses - 1 - l>>] : l \in {0, NumClasses - 1}}

PlotPath == "output/hyperband_plot.png"

\* command lines: every allowed --tuner value, one that is not allowed and
\* none; --plot given or not
CommandLines == [tuner : Choices \cup {"grid", NoArg}, plot : {PlotPath, NoArg}]

UsageLine == [tuner |-> "hyperband", plot |-> PlotPath]

DefaultHP == [conv_1 |-> 32, conv_2 |-> 64, dense_units |-> 256, learning_rate |-> 1000]

\* a command line with an accepted --tuner value and a --plot path
WellFormed(a) == a.tuner \in {"hyperband", "random", "bayesian"} /\ a.plot # NoArg

\* the other command lines: the usage lines pass none of them, and they are
\* tried with no failing call
RejectedInputs(a, f, o, d) ==
    /\ a \in CommandLines
    /\ ~WellFormed(a)
    /\ f = "none"
    /\ o = DefaultHP
    /\ d = OneSample

\* every well-formed command line, every failing call and every search
\* outcome, on the one-sample datasets
ControlInputs(a, f, o, d) ==
    /\ a \in CommandLines
    /\ WellFormed(a)
    /\ f \in Steps \cup {"none"}
    /\ o \in HPSpace
    /\ d \in EdgeDatasets

\* every dataset, on the first usage line with no failing call
DataInputs(a, f, o, d) ==
    /\ a = UsageLine
    /\ f = "none"
    /\ o = DefaultHP
    /\ d \in RichDatasets

\* a later invocation: every well-formed command line and every failing call
RerunInputs(a, f, o, d) ==
    /\ a \in CommandLines
    /\ WellFormed(a)
    /\ f \in Steps \cup {"none"}
    /\ o = DefaultHP
    /\ d = OneSample

Init ==
    /\ run = 1
    /\ pc = "parse"
    /\ \/ RejectedInputs(args, fault, oracle, fashion_mnist)
       \/ ControlInputs(args, fault, oracle, fashion_mnist)
       \/ DataInputs(args, fault, oracle, fashion_mnist)
    /\ trainX = None /\ testX = None
    /\ trainY = <<>> /\ testY = <<>>
    /\ built = <<>> /\ tuner = None /\ bestHP = None /\ reported = None
    /\ model = None /\ H = None /\ predictions = None /\ yTrue = <<>>
    /\ writes = <<>> /\ disk = {} /\ used = {}
    /\ trace = <<>> /\ exit = <<>>

(***************************************************************************)
(* Control flow shared by the statements.                                  *)
(***************************************************************************)
\* the interpreter exits 0 at the end of the file and 1 on an uncaught exception
Goto(p) ==
    /\ pc' = p
    /\ exit' = IF p = "done" THEN <<0>> ELSE IF p = "failed" THEN <<1>> ELSE exit

\* statement s raised
Crash(s) == Goto(Propagate(s)) /\ trace' = trace

\* statement s returned
Advance(s) == Goto(After(s)) /\ trace' = Append(trace, s)

(***************************************************************************)
(* Lines 26-30: ap.parse_args().  argparse prints a usage message and      *)
(* exits with status 2 when a required option is absent or --tuner is not  *)
(* one of its choices.                                                     *)
(***************************************************************************)
ParseArgs ==
    /\ pc = "parse"
    /\ LET absent == {o \in {"tuner", "plot"} : Required(o) /\ args[o] = NoArg}
           invalid == args.tuner # NoArg /\ args.tuner \notin Choices
       IN  IF absent # {} \/ invalid
           THEN pc' = "usage_error" /\ exit' = <<2>>
           ELSE pc' = StepOrder[1] /\ exit' = exit
    /\ UNCHANGED <<run, args, fault, oracle, fashion_mnist, trainX, testX, trainY,
                   testY, built, tuner, bestHP, reported, model, H, predictions,
                   yTrue, writes, disk, used, trace>>

\* line 34: fashion_mnist.load_data()
LoadData ==
    /\ pc = "load"
    /\ IF fault = "load"
       THEN Crash("load") /\ UNCHANGED <<trainX, testX, trainY, testY>>
       ELSE /\ trainX' = [shape |-> <<Len(fashion_mnist.trainY), ImgSide, ImgSide>>,
                          dtype |-> "uint8", maxval |-> PixelMax]
            /\ testX' = [shape |-> <<Len(fashion_mnist.testY), ImgSide, ImgSide>>,
                         dtype |-> "uint8", maxval |-> PixelMax]
            /\ trainY' = fashion_mnist.trainY
            /\ testY' = fashion_mnist.testY
            /\ Advance("load")
    /\ UNCHANGED <<run, args, fault, oracle, fashion_mnist, built, tuner, bestHP,
                   reported, model, H, predictions, yTrue, writes, disk, used>>

\* lines 37-38: add a channel dimension
ReshapeData ==
    /\ pc = "reshape"
    /\ IF \/ fault = "reshape"
          \/ ~CanReshape(trainX, ChannelShape(trainX))
          \/ ~CanReshape(testX, ChannelShape(testX))
       THEN Crash("reshape") /\ UNCHANGED <<trainX, testX>>
       ELSE /\ trainX' = Reshape(trainX, ChannelShape(trainX))
            /\ testX' = Reshape(testX, ChannelShape(testX))
            /\ Advance("reshape")
    /\ UNCHANGED <<run, args, fault, oracle, fashion_mnist, trainY, testY, built,
                   tuner, bestHP, reported, model, H, predictions, yTrue, writes,
                   disk, used>>

\* lines 41-42: scale to [0, 1]
ScaleData ==
    /\ pc = "scale"
    /\ IF fault = "scale"
       THEN Crash("scale") /\ UNCHANGED <<trainX, testX>>
       ELSE /\ trainX' = Scale(trainX)
            /\ testX' = Scale(testX)
            /\ Advance("scale")
    /\ UNCHANGED <<run, args, fault, oracle, fashion_mnist, trainY, testY, built,
                   tuner, bestHP, reported, model, H, predictions, yTrue, writes,
                   disk, used>>

\* lines 45-46: one-hot encode the labels
EncodeLabels ==
    /\ pc = "encode"
    /\ IF fault = "encode"
       THEN Crash("encode") /\ UNCHANGED <<trainY, testY>>
       ELSE /\ trainY' = ToCategorical(trainY, NumClasses)
            /\ testY' = ToCategorical(testY, NumClasses)
            /\ Advance("encode")
    /\ UNCHANGED <<run, args, fault, oracle, fashion_mnist, trainX, testX, built,
                   tuner, bestHP, reported, model, H, predictions, yTrue, writes,
                   disk, used>>

\* line 53: the early stopping callback
InitCallback ==
    /\ pc = "callback"
    /\ IF fault = "callback" THEN Crash("callback") ELSE Advance("callback")
    /\ UNCHANGED <<run, args, fault, oracle, fashion_mnist, trainX, testX, trainY,
                   testY, built, tuner, bestHP, reported, model, H, predictions,
                   yTrue, writes, disk, used>>

\* the tuner a branch constructs: it creates its project directory and
\* resumes from what is already there
NewTuner(branch) ==
    LET dir == Join(TunerDirectory, ProjectName(args))
    IN  [class |-> TunerClass(branch), branch |-> branch,
         directory |-> TunerDirectory, project_name |-> ProjectName(args),
         resumed |-> dir \in disk, best |-> None]

\* lines 56-74: construct the tuner --tuner names
BuildTuner ==
    /\ pc = "tuner"
    /\ IF fault = "tuner"
       THEN Crash("tuner") /\ UNCHANGED <<built, tuner, writes, disk>>
       ELSE LET taken == Branches(args.tuner)
                made == [i \in 1..Len(taken) |-> NewTuner(taken[i])]
            IN  /\ built' = built \o [i \in 1..Len(made) |-> made[i].class]
                /\ tuner' = made[Len(made)]
                /\ writes' = writes \o [i \in 1..Len(made) |->
                                           [by |-> "tuner", path |-> ProjectDir(made[i])]]
                /\ disk' = disk \cup {ProjectDir(made[i]) : i \in 1..Len(made)}
                /\ Advance("tuner")
    /\ UNCHANGED <<run, args, fault, oracle, fashion_mnist, trainX, testX, trainY,
                   testY, bestHP, reported, model, H, predictions, yTrue, used>>

\* lines 78-79: tuner.search(...); the trials are saved in the project
Search ==
    /\ pc = "search"
    /\ IF fault = "search"
       THEN Crash("search") /\ UNCHANGED <<tuner, writes, disk>>
       ELSE /\ tuner' = [tuner EXCEPT !.best = oracle]
            /\ writes' = Append(writes, [by |-> "tuner", path |-> ProjectDir(tuner)])
            /\ disk' = disk \cup {ProjectDir(tuner)}
            /\ Advance("search")
    /\ UNCHANGED <<run, args, fault, oracle, fashion_mnist, trainX, testX, trainY,
                   testY, built, bestHP, reported, model, H, predictions, yTrue,
                   used>>

\* tuner.get_best_hyperparameters(num_trials=1)[0]
BestOf(t) == t.best

\* lines 82-86: grab the best hyperparameters and print them; indexing the
\* empty list of a tuner without trials raises
GrabBest ==
    /\ pc = "best"
    /\ IF fault = "best" \/ BestOf(tuner) = None
       THEN Crash("best") /\ UNCHANGED <<bestHP, reported>>
       ELSE /\ bestHP' = BestOf(tuner)
            /\ reported' = Report(bestHP')
            /\ Advance("best")
    /\ UNCHANGED <<run, args, fault, oracle, fashion_mnist, trainX, testX, trainY,
                   testY, built, tuner, model, H, predictions, yTrue, writes, disk,
                   used>>

\* the model built from a fresh, untuned record
BuildArgUntuned == [conv_1 |-> 32, conv_2 |-> 64, dense_units |-> 256, learning_rate |-> 1000]

\* the record line 90 hands to tuner.hypermodel.build
BuildArg == bestHP

\* line 90: build the best model
BuildModel ==
    /\ pc = "build"
    /\ IF fault = "build"
       THEN Crash("build") /\ UNCHANGED model
       ELSE model' = [hp |-> BuildArg, trained |-> FALSE] /\ Advance("build")
    /\ UNCHANGED <<run, args, fault, oracle, fashion_mnist, trainX, testX, trainY,
                   testY, built, tuner, bestHP, reported, H, predictions, yTrue,
                   writes, disk, used>>

\* lines 91-92: train it
Fit ==
    /\ pc = "fit"
    /\ IF fault = "fit"
       THEN Crash("fit") /\ UNCHANGED <<model, H>>
       ELSE /\ model' = [model EXCEPT !.trained = TRUE]
            /\ H' = [hp |-> model.hp, samples |-> trainX.shape[1]]
            /\ Advance("fit")
    /\ UNCHANGED <<run, args, fault, oracle, fashion_mnist, trainX, testX, trainY,
                   testY, built, tuner, bestHP, reported, predictions, yTrue,
                   writes, disk, used>>

\* line 96: model.predict(x=testX, batch_size=32)
Predict ==
    /\ pc = "predict"
    /\ IF fault = "predict"
       THEN Crash("predict") /\ UNCHANGED predictions
       ELSE /\ predictions' = [shape |-> <<testX.shape[1], NumClasses>>, hp |-> model.hp]
            /\ Advance("predict")
    /\ UNCHANGED <<run, args, fault, oracle, fashion_mnist, trainX, testX, trainY,
                   testY, built, tuner, bestHP, reported, model, H, yTrue, writes,
                   disk, used>>

\* line 97: the classification report over testY.argmax(axis=1)
ClassificationReport ==
    /\ pc = "report"
    /\ IF fault = "report"
       THEN Crash("report") /\ UNCHANGED yTrue
       ELSE yTrue' = ArgmaxRows(testY) /\ Advance("report")
    /\ UNCHANGED <<run, args, fault, oracle, fashion_mnist, trainX, testX, trainY,
                   testY, built, tuner, bestHP, reported, model, H, predictions,
                   writes, disk, used>>

\* line 100: utils.save_plot(H, args["plot"]); a failing write may or may
\* not leave a file behind
SavePlot ==
    /\ pc = "plot"
    /\ LET w == [by |-> "plot", path |-> PlotTarget(args)]
       IN  IF fault = "plot"
           THEN /\ Crash("plot")
                /\ \/ UNCHANGED <<writes, disk>>
                   \/ writes' = Append(writes, w) /\ disk' = disk \cup {w.path}
           ELSE /\ writes' = Append(writes, w)
                /\ disk' = disk \cup {w.path}
                /\ Advance("plot")
    /\ UNCHANGED <<run, args, fault, oracle, fashion_mnist, trainX, testX, trainY,
                   testY, built, tuner, bestHP, reported, model, H, predictions,
                   yTrue, used>>

\* lines 4-6: the script is invoked again; only the disk is carried over
NewRun ==
    /\ pc \in Terminal
    /\ run < MaxRuns
    /\ run' = run + 1
    /\ pc' = "parse"
    /\ \/ RejectedInputs(args', fault', oracle', fashion_mnist')
       \/ RerunInputs(args', fault', oracle', fashion_mnist')
    /\ used' = used \cup (IF tuner = None THEN {}
                          ELSE {[tuner |-> args.tuner, location |-> ProjectDir(tuner)]})
    /\ trainX' = None /\ testX' = None
    /\ trainY' = <<>> /\ testY' = <<>>
    /\ built' = <<>> /\ tuner' = None /\ bestHP' = None /\ reported' = None
    /\ model' = None /\ H' = None /\ predictions' = None /\ yTrue' = <<>>
    /\ writes' = <<>> /\ trace' = <<>> /\ exit' = <<>>
    /\ UNCHANGED disk

Next ==
    \/ ParseArgs
    \/ LoadData
    \/ ReshapeData
    \/ ScaleData
    \/ EncodeLabels
    \/ InitCallback
    \/ BuildTuner
    \/ Search
    \/ GrabBest
    \/ BuildModel
    \/ Fit
    \/ Predict
    \/ ClassificationReport
    \/ SavePlot
    \/ NewRun

Spec == Init /\ [][Next]_vars

\* the interpreter runs one statement after the other until the process ends
FairSpec == Spec /\ WF_vars(Next)

(***************************************************************************)
(* Vocabulary of the properties.                                           *)
(***************************************************************************)
\* the three accepted --tuner values
AllowedTuners == {"hyperband", "random", "bayesian"}

\* the search strategy each accepted value names
StrategyOf(t) == CASE t = "hyperband" -> "Hyperband"
                   [] t = "random" -> "RandomSearch"
                   [] t = "bayesian" -> "BayesianOptimization"

\* the stages of a run, in order
StageOrder == <<"load data", "normalize", "configure tuner", "search",
                "retrain best", "evaluate", "plot">>

\* the stage a statement belongs to
StageOf(s) == CASE s = "load" -> "load data"
                [] s \in {"reshape", "scale", "encode"} -> "normalize"
                [] s \in {"callback", "tuner"} -> "configure tuner"
                [] s = "search" -> "search"
                [] s \in {"best", "build", "fit"} -> "retrain best"
                [] s \in {"predict", "report"} -> "evaluate"
                [] s = "plot" -> "plot"

RECURSIVE Collapse(_)
\* a sequence with each run of equal neighbours reduced to one element
Collapse(q) == IF Len(q) <= 1 THEN q
               ELSE IF q[1] = q[2] THEN Collapse(Tail(q))
               ELSE <<q[1]>> \o Collapse(Tail(q))

\* the stages that have run, in the order they ran
StageTrace == Collapse([i \in 1..Len(trace) |-> StageOf(trace[i])])

IsPrefix(p, q) == Len(p) <= Len(q) /\ p = SubSeq(q, 1, Len(p))

Ran(s) == \E i \in 1..Len(trace) : trace[i] = s

PlotWrites == {i \in 1..Len(writes) : writes[i].by = "plot"}

ValidLine == args.tuner \in AllowedTuners /\ args.plot # NoArg

\* what holds of the plot in every state of a run
C1_DoneHasPlot ==
    /\ pc = "done" =>
          /\ Cardinality(PlotWrites) = 1
          /\ writes[Len(writes)] = [by |-> "plot", path |-> args.plot]
          /\ trace[Len(trace)] = "plot"
          /\ args.plot \in disk
    /\ (PlotWrites # {} /\ fault = "none") => pc = "done"

(***************************************************************************)
(* C1: with an accepted --tuner value, a --plot path and no external call  *)
(* raising, the run completes, and a completed run has written the plot    *)
(* exactly once, to the --plot path, as its last step.                     *)
(***************************************************************************)
C1_RunsToCompletionAndPlots ==
    /\ []C1_DoneHasPlot
    /\ (pc = "parse" /\ ValidLine /\ fault = "none") ~> (pc = "done")

C1_Witness ==
    /\ pc = "done" /\ args.tuner = "bayesian" /\ fault = "none"
    /\ writes[Len(writes)].path = PlotPath

(***************************************************************************)
(* C2: the stages of a run execute in the order load data, normalize,      *)
(* configure tuner, search, retrain best, evaluate, plot: no statement     *)
(* runs twice, the stages that ran are an initial part of that order, the  *)
(* stage about to run is the last one that ran or the one after it, and a  *)
(* completed run ran them all.                                             *)
(***************************************************************************)
C2_StagesInFixedOrder ==
    /\ IsPrefix(StageTrace, StageOrder)
    /\ \A i, j \in 1..Len(trace) : i < j => trace[i] # trace[j]
    /\ pc \in Steps =>
          IsPrefix(Collapse(StageTrace \o <<StageOf(pc)>>), StageOrder)
    /\ pc = "done" => StageTrace = StageOrder

C2_Witness == pc = "done" /\ args.tuner = "random" /\ StageTrace = StageOrder

(***************************************************************************)
(* C3: a --tuner value that is not hyperband, random or bayesian ends the  *)
(* run with a usage error and a nonzero exit status, with nothing loaded,  *)
(* no tuner constructed, nothing searched or trained and nothing written.  *)
(***************************************************************************)
C3_InvalidTunerIsUsageError ==
    (args.tuner \notin AllowedTuners /\ args.tuner # NoArg /\ pc # "parse") =>
        /\ pc = "usage_error"
        /\ Len(exit) = 1 /\ exit[1] # 0
        /\ trace = <<>>
        /\ trainX = None /\ testX = None
        /\ built = <<>> /\ tuner = None
        /\ bestHP = None /\ model = None /\ H = None
        /\ writes = <<>>

C3_Witness == args.tuner = "grid" /\ args.plot = PlotPath /\ pc = "usage_error"

(***************************************************************************)
(* C4: a run without --tuner or without --plot is rejected at argument     *)
(* parsing, before the dataset is loaded, and a run is past argument       *)
(* parsing only with an accepted --tuner value and a --plot value.         *)
(***************************************************************************)
C4_BothOptionsRequired ==
    /\ ((args.tuner = NoArg \/ args.plot = NoArg) /\ pc # "parse") =>
          /\ pc = "usage_error"
          /\ trace = <<>>
          /\ trainX = None /\ testX = None
    /\ pc \notin {"parse", "usage_error"} => ValidLine

C4_Witness == args.tuner = "random" /\ args.plot = NoArg /\ pc = "usage_error"

(***************************************************************************)
(* C5: when an external call after argument parsing raises, the run ends   *)
(* there: the statements that ran are exactly those before the failing     *)
(* one, none after it runs, the process exits with a failure status, and   *)
(* no plot is written unless the failing call is the plot itself.          *)
(***************************************************************************)
C5_FailurePropagates ==
    (fault # "none" /\ pc \notin {"parse", "usage_error"}) =>
        /\ pc # "done"
        /\ pc \in Steps => IndexOf(pc) <= IndexOf(fault)
        /\ IsPrefix(trace, SubSeq(StepOrder, 1, IndexOf(fault) - 1))
        /\ pc = "failed" =>
              /\ trace = SubSeq(StepOrder, 1, IndexOf(fault) - 1)
              /\ exit = <<1>>
        /\ fault # "plot" => PlotWrites = {}

C5_Witness ==
    /\ pc = "failed" /\ fault = "fit"
    /\ trace[Len(trace)] = "build" /\ model # None /\ writes # <<>>

(***************************************************************************)
(* C6 as stated: the only file a run writes is the plot at the --plot      *)
(* path.                                                                   *)
(***************************************************************************)
C6_OnlyPlotPersisted ==
    \A i \in 1..Len(writes) : writes[i] = [by |-> "plot", path |-> args.plot]

(***************************************************************************)
(* C6 as amended: a run writes the plot at the --plot path and the tuner's *)
(* project at <output directory>/<--tuner value>, and nothing else; all    *)
(* that is ever on disk are plots and those projects.                      *)
(***************************************************************************)
C6_OnlyPlotAndTunerProject ==
    /\ \A i \in 1..Len(writes) :
          \/ writes[i] = [by |-> "plot", path |-> args.plot]
          \/ writes[i] = [by |-> "tuner", path |-> Join(OUTPUT_PATH, args.tuner)]
    /\ disk \subseteq {PlotPath} \cup {Join(OUTPUT_PATH, t) : t \in AllowedTuners}

C6_Witness ==
    /\ pc = "done" /\ args.tuner = "random"
    /\ writes[1] = [by |-> "tuner", path |-> "output/random"]
    /\ writes[Len(writes)] = [by |-> "plot", path |-> PlotPath]

(***************************************************************************)
(* C7: a run that passed argument parsing constructs exactly one tuner,    *)
(* of the strategy --tuner names, and the else branch is taken only for    *)
(* bayesian.                                                               *)
(***************************************************************************)
C7_OneTunerOfNamedStrategy ==
    /\ Len(built) <= 1
    /\ Ran("tuner") =>
          /\ Len(built) = 1
          /\ built[1] = StrategyOf(args.tuner)
          /\ tuner # None /\ tuner.class = StrategyOf(args.tuner)
    /\ ~Ran("tuner") => built = <<>> /\ tuner = None
    /\ (tuner # None /\ tuner.branch = "else") => args.tuner = "bayesian"

C7_Witness ==
    /\ Ran("tuner") /\ args.tuner = "bayesian"
    /\ tuner.branch = "else" /\ built = <<"BayesianOptimization">>

(***************************************************************************)
(* C8: the best hyperparameter record is fetched only after the search     *)
(* has finished and is the record the tuner ranks first; the four values   *)
(* reported are read from it, and the model that is built, trained and     *)
(* evaluated is built from that same record.                               *)
(***************************************************************************)
C8_BestRecordUsedThroughout ==
    /\ (tuner # None /\ tuner.best # None) => Ran("search")
    /\ bestHP # None => Ran("search") /\ bestHP = tuner.best /\ bestHP = oracle
    /\ reported # None =>
          /\ bestHP # None
          /\ reported.conv_1 = bestHP.conv_1
          /\ reported.conv_2 = bestHP.conv_2
          /\ reported.dense_units = bestHP.dense_units
          /\ reported.learning_rate = (bestHP.learning_rate + 5) \div 10
    /\ model # None => Ran("best") /\ model.hp = bestHP
    /\ H # None => H.hp = bestHP
    /\ predictions # None => predictions.hp = bestHP

C8_Witness ==
    /\ pc = "done" /\ bestHP # DefaultHP
    /\ model.hp = bestHP /\ reported.conv_1 = 64 /\ reported.learning_rate = 1

\* Y is the one-hot encoding of the labels y over the 10 classes
OneHotOf(Y, y) ==
    /\ Len(Y) = Len(y)
    /\ \A i \in 1..Len(Y) :
          /\ Len(Y[i]) = 10
          /\ \A j \in 1..10 : Y[i][j] = IF j = y[i] + 1 THEN 1 ELSE 0
          /\ Cardinality({j \in 1..10 : Y[i][j] = 1}) = 1
          /\ Argmax(Y[i]) = y[i]
          /\ Argmax(Y[i]) + 1 \in 1..Len(labelNames)

(***************************************************************************)
(* C9: once encoded, and always before the search, every label row has     *)
(* length 10 with a single 1 at the index of its label and 0 elsewhere, so *)
(* the argmax of a row is the label and names an entry of labelNames; the  *)
(* sample counts of the images and the labels are those of the dataset.    *)
(***************************************************************************)
C9_OneHotRoundTrip ==
    /\ Ran("search") => Ran("encode")
    /\ Ran("encode") =>
          /\ OneHotOf(trainY, fashion_mnist.trainY)
          /\ OneHotOf(testY, fashion_mnist.testY)
    /\ Ran("load") =>
          /\ trainX.shape[1] = Len(fashion_mnist.trainY)
          /\ testX.shape[1] = Len(fashion_mnist.testY)
          /\ Len(trainY) = Len(fashion_mnist.trainY)
          /\ Len(testY) = Len(fashion_mnist.testY)
    /\ Ran("report") => yTrue = fashion_mnist.testY
    /\ Len(labelNames) = 10

C9_Witness ==
    /\ pc = "done" /\ Len(fashion_mnist.testY) = MaxSamples
    /\ yTrue[1] = 9 /\ yTrue[2] = 0 /\ testY[1][10] = 1

(***************************************************************************)
(* C10: a tuner's project is <output directory>/<--tuner value>: over all  *)
(* the runs so far, two runs use the same project location exactly when    *)
(* they were given the same --tuner value, and a tuner finds a project to  *)
(* resume exactly when an earlier run with its --tuner value made one.     *)
(***************************************************************************)
C10_ProjectPerTunerValue ==
    LET current == IF tuner = None THEN {}
                   ELSE {[tuner |-> args.tuner, location |-> ProjectDir(tuner)]}
        all == used \cup current
    IN  /\ \A a, b \in all : (a.tuner = b.tuner) <=> (a.location = b.location)
        /\ tuner # None =>
              /\ tuner.project_name = args.tuner
              /\ tuner.directory = OUTPUT_PATH
              /\ tuner.resumed <=> (\E u \in used : u.tuner = args.tuner)

C10_Witness ==
    /\ run = 2 /\ tuner # None /\ tuner.resumed
    /\ \E u \in used : u.tuner = args.tuner

====
